---- MODULE Spec2Model ----
(***************************************************************************)
(* Verification model of the volunteer-events application.                 *)
(*                                                                         *)
(*  - EventsMap screen: fetchAndCacheEvents (network-first load of the     *)
(*    events list with cache fallback), the focus effect that starts it,   *)
(*    and handleLogout.  The caching service (getFromNetworkFirst,         *)
(*    setInCache) is the CacheFirstLoader of the design document.          *)
(*  - CreateEvent screen: image picking, image upload and save.            *)
(*                                                                         *)
(* Every awaited operation is one step: the step is the effect of the      *)
(* operation together with the continuation that runs up to the next       *)
(* await.                                                                  *)
(***************************************************************************)
EXTENDS Integers, Sequences, FiniteSets, TLC

\* ---------------------------------------------------------------- bounds
MaxRuns == 2
MaxValue == 1
MaxImages == 2

Runs == 1..MaxRuns
\* payloads the events endpoint can answer with; 0 is the empty list
NetValues == 0..MaxValue
Images == 1..MaxImages

\* ------------------------------------------------------------- constants
Undefined == -1
EmptyList == 0
Null == <<>>
NoUrl == <<>>
EventsKey == "events_future"
\* handleLogout clearing the events cache as well
LogoutKeys_all == {"userInfo", "accessToken", "events_future"}
\* the keys handleLogout removes
LogoutKeys == {"userInfo", "accessToken"}
Keys == {"events_future", "userInfo", "accessToken"}

\* ------------------------------------------------------- (de)serialising
\* JSON.stringify of a payload: the store holds text, never the payload
Stringify(v) == <<"json", v>>
\* JSON.parse of a stored text
Parse(s) == IF s = Null THEN Undefined ELSE s[2]

\* AsyncStorage.setItem(k, JSON.stringify(v)) on store s
setInCache(s, k, v) == [s EXCEPT ![k] = Stringify(v)]
\* AsyncStorage.multiRemove(ks) on store s
multiRemove(s, ks) == [k \in Keys |-> IF k \in ks THEN Null ELSE s[k]]

VARIABLES
    \* ---- EventsMap
    store,        \* AsyncStorage: key -> stored text or Null
    events,       \* useState<Event[]>
    isLoading,    \* useState(false)
    pc,           \* position of each run of fetchAndCacheEvents
    response,     \* per run: the value getFromNetworkFirst resolved with
    started,      \* number of runs started so far
    logout,       \* position of handleLogout
    authValue,    \* authenticationContext value
    screen,       \* screen in front
    hist,         \* per run: record of what the run did (history)
    persisted,    \* payload of the last successful write under EventsKey
    fetchedEver,  \* payloads that successful requests have produced
    \* ---- CreateEvent
    imageUri, imageBase64, imageRemoteUrl, imageUploading,
    uploadArg,    \* argument of the uploadImage call in flight
    fieldsOk,     \* the text fields of the form pass canSave's tests
    saved         \* events sent to createEvent: <<image, imageUrl>>

mapVars == <<store, events, isLoading, pc, response, started, logout,
             authValue, screen, hist, persisted, fetchedEver>>
formVars == <<imageUri, imageBase64, imageRemoteUrl, imageUploading,
              uploadArg, fieldsOk, saved>>
vars == <<mapVars, formVars>>

NoHist == [fetchCount |-> 0, fetchRes |-> "none", fetched |-> Undefined,
           overlapped |-> FALSE, ops |-> <<>>, loadOutcome |-> "none", cacheAtFallback |-> Null,
           persistedAtRead |-> Undefined, staleSignal |-> FALSE,
           unavailable |-> FALSE, alertOffline |-> FALSE,
           shown |-> Undefined, shownFrom |-> "none", storeAtDone |-> Null]

Init ==
    \* the store outlives the screen: the events entry is absent or is
    \* what an earlier session fetched; the user is logged in
    /\ \E c \in {Null} \cup {Stringify(v) : v \in NetValues} :
          store = [k \in Keys |-> IF k = EventsKey THEN c ELSE <<"raw", k>>]
    /\ events = EmptyList
    /\ isLoading = FALSE
    /\ pc = [r \in Runs |-> "idle"]
    /\ response = [r \in Runs |-> Undefined]
    /\ started = 0
    /\ logout = "idle"
    /\ authValue = "user"
    /\ screen = "EventsMap"
    /\ hist = [r \in Runs |-> NoHist]
    /\ persisted = Parse(store[EventsKey])
    /\ fetchedEver = {Parse(store[EventsKey])} \ {Undefined}
    /\ imageUri = 0
    /\ imageBase64 = 0
    /\ imageRemoteUrl = NoUrl
    /\ imageUploading = FALSE
    /\ uploadArg = 0
    /\ fieldsOk = FALSE
    /\ saved = {}

\* ------------------------------------------------------------ EventsMap
Op(kind, ok) == <<kind, ok>>
\* the runs of fetchAndCacheEvents that have started and not finished
InFlight == {r \in Runs : pc[r] \notin {"idle", "done"}}

\* useFocusEffect: the screen gains focus and a run starts; the run sets
\* isLoading and calls getEvents() once, then awaits getFromNetworkFirst
Focus(r) ==
    /\ screen = "EventsMap"
    /\ r = started + 1
    /\ pc[r] = "idle"
    /\ started' = r
    /\ isLoading' = TRUE
    /\ pc' = [pc EXCEPT ![r] = "fetching"]
    /\ hist' = [q \in Runs |->
                 IF q = r
                   THEN [hist[q] EXCEPT !.fetchCount = @ + 1,
                                        !.overlapped = InFlight # {}]
                   ELSE IF q \in InFlight
                          THEN [hist[q] EXCEPT !.overlapped = TRUE]
                          ELSE hist[q]]
    /\ UNCHANGED <<store, events, response, logout, authValue, screen,
                   persisted, fetchedEver, formVars>>

\* getEvents().then(r => r.data) resolves with payload v; the loader goes
\* on to persist v under its key
FetchResolve(r, v) ==
    /\ pc[r] = "fetching"
    /\ pc' = [pc EXCEPT ![r] = "loadSet"]
    /\ hist' = [hist EXCEPT ![r].fetchRes = "ok", ![r].fetched = v]
    /\ fetchedEver' = fetchedEver \cup {v}
    /\ UNCHANGED <<store, events, isLoading, response, started, logout,
                   authValue, screen, persisted, formVars>>

\* the request rejects; the loader goes on to read its key
FetchReject(r) ==
    /\ pc[r] = "fetching"
    /\ pc' = [pc EXCEPT ![r] = "loadGet"]
    /\ hist' = [hist EXCEPT ![r].fetchRes = "fail"]
    /\ UNCHANGED <<store, events, isLoading, response, started, logout,
                   authValue, screen, persisted, fetchedEver, formVars>>

\* getFromNetworkFirst, success branch: best-effort write of the fresh
\* payload (ok = the store accepted it), then the payload is returned and
\* fetchAndCacheEvents issues its own setInCache
LoadSet(r, ok) ==
    /\ pc[r] = "loadSet"
    /\ store' = IF ok THEN setInCache(store, EventsKey, hist[r].fetched)
                      ELSE store
    /\ persisted' = IF ok THEN hist[r].fetched ELSE persisted
    /\ response' = [response EXCEPT ![r] = hist[r].fetched]
    /\ pc' = [pc EXCEPT ![r] = "recache"]
    /\ hist' = [hist EXCEPT ![r].ops = Append(@, Op("set", ok)),
                            ![r].loadOutcome = "fresh"]
    /\ UNCHANGED <<events, isLoading, started, logout, authValue, screen,
                   fetchedEver, formVars>>

\* getFromNetworkFirst, failure branch: read the key; a stored value is
\* parsed and returned with the stale signal, otherwise the loader fails
\* with Unavailable and fetchAndCacheEvents enters its catch block (Alert,
\* then AsyncStorage.getItem)
LoadGet(r) ==
    LET cached == store[EventsKey] IN
    /\ pc[r] = "loadGet"
    /\ IF cached # Null
         THEN /\ response' = [response EXCEPT ![r] = Parse(cached)]
              /\ pc' = [pc EXCEPT ![r] = "recache"]
              /\ hist' = [hist EXCEPT ![r].ops = Append(@, Op("get", TRUE)),
                                      ![r].loadOutcome = "stale",
                                      ![r].cacheAtFallback = cached,
                                      ![r].persistedAtRead = persisted,
                                      ![r].staleSignal = TRUE]
         ELSE /\ response' = response
              /\ pc' = [pc EXCEPT ![r] = "catchGet"]
              /\ hist' = [hist EXCEPT ![r].ops = Append(@, Op("get", TRUE)),
                                      ![r].loadOutcome = "unavailable",
                                      ![r].cacheAtFallback = cached,
                                      ![r].persistedAtRead = persisted,
                                      ![r].unavailable = TRUE,
                                      ![r].alertOffline = TRUE]
    /\ UNCHANGED <<store, events, isLoading, started, logout, authValue,
                   screen, persisted, fetchedEver, formVars>>

\* a slip of line 49: the events state is cached instead of the response
Recache_cachesState(r, ok) ==
    /\ pc[r] = "recache"
    /\ IF ok
         THEN /\ store' = setInCache(store, EventsKey, events)
              /\ persisted' = events
              /\ events' = response[r]
              /\ isLoading' = FALSE
              /\ pc' = [pc EXCEPT ![r] = "done"]
              /\ hist' = [hist EXCEPT ![r].ops = Append(@, Op("set", TRUE)),
                                      ![r].shown = response[r],
                                      ![r].shownFrom = "response",
                                      ![r].storeAtDone = store'[EventsKey]]
         ELSE /\ pc' = [pc EXCEPT ![r] = "catchGet"]
              /\ hist' = [hist EXCEPT ![r].ops = Append(@, Op("set", FALSE)),
                                      ![r].alertOffline = TRUE]
              /\ UNCHANGED <<store, persisted, events, isLoading>>
    /\ UNCHANGED <<response, started, logout, authValue, screen,
                   fetchedEver, formVars>>

\* a retry in the catch block: the request is started again
Recache_retry(r, ok) ==
    /\ pc[r] = "recache"
    /\ IF ok
         THEN /\ store' = setInCache(store, EventsKey, response[r])
              /\ persisted' = response[r]
              /\ events' = response[r]
              /\ isLoading' = FALSE
              /\ pc' = [pc EXCEPT ![r] = "done"]
              /\ hist' = [hist EXCEPT ![r].ops = Append(@, Op("set", TRUE)),
                                      ![r].shown = response[r],
                                      ![r].shownFrom = "response",
                                      ![r].storeAtDone = store'[EventsKey]]
         ELSE /\ pc' = [pc EXCEPT ![r] = "fetching"]
              /\ hist' = [hist EXCEPT ![r].ops = Append(@, Op("set", FALSE)),
                                      ![r].alertOffline = TRUE,
                                      ![r].fetchCount = @ + 1]
              /\ UNCHANGED <<store, persisted, events, isLoading>>
    /\ UNCHANGED <<response, started, logout, authValue, screen,
                   fetchedEver, formVars>>

\* await setInCache('events_future', response); setEvents(response); on
\* success the finally block ends the run.  A rejected write enters the
\* catch block: Alert 'Offline', then AsyncStorage.getItem is awaited
Recache(r, ok) ==
    /\ pc[r] = "recache"
    /\ IF ok
         THEN /\ store' = setInCache(store, EventsKey, response[r])
              /\ persisted' = response[r]
              /\ events' = response[r]
              /\ isLoading' = FALSE
              /\ pc' = [pc EXCEPT ![r] = "done"]
              /\ hist' = [hist EXCEPT ![r].ops = Append(@, Op("set", TRUE)),
                                      ![r].shown = response[r],
                                      ![r].shownFrom = "response",
                                      ![r].storeAtDone = store'[EventsKey]]
         ELSE /\ pc' = [pc EXCEPT ![r] = "catchGet"]
              /\ hist' = [hist EXCEPT ![r].ops = Append(@, Op("set", FALSE)),
                                      ![r].alertOffline = TRUE]
              /\ UNCHANGED <<store, persisted, events, isLoading>>
    /\ UNCHANGED <<response, started, logout, authValue, screen,
                   fetchedEver, formVars>>

\* catch block after the Alert: const cached = await getItem(...);
\* if (cached) setEvents(JSON.parse(cached)); then the finally block
CatchGet(r) ==
    LET cached == store[EventsKey] IN
    /\ pc[r] = "catchGet"
    /\ events' = IF cached # Null THEN Parse(cached) ELSE events
    /\ isLoading' = FALSE
    /\ pc' = [pc EXCEPT ![r] = "done"]
    /\ hist' = [hist EXCEPT
                  ![r].ops = Append(@, Op("get", TRUE)),
                  ![r].shown = IF cached # Null THEN Parse(cached) ELSE @,
                  ![r].shownFrom = IF cached # Null THEN "cache" ELSE @,
                  ![r].storeAtDone = cached]
    /\ UNCHANGED <<store, response, started, logout, authValue, screen,
                   persisted, fetchedEver, formVars>>

\* handleLogout is pressed: AsyncStorage.multiRemove is issued
handleLogout ==
    /\ screen = "EventsMap"
    /\ logout = "idle"
    /\ logout' = "removing"
    /\ UNCHANGED <<store, events, isLoading, pc, response, started,
                   authValue, screen, hist, persisted, fetchedEver, formVars>>

\* multiRemove completes; its then-callback clears the authentication
\* context and navigates to Login
LogoutDone ==
    /\ logout = "removing"
    /\ store' = multiRemove(store, LogoutKeys)
    /\ authValue' = Undefined
    /\ screen' = "Login"
    /\ logout' = "done"
    /\ UNCHANGED <<events, isLoading, pc, response, started, hist,
                   persisted, fetchedEver, formVars>>

Next ==
    \/ \E r \in Runs : Focus(r)
    \/ \E r \in Runs, v \in NetValues : FetchResolve(r, v)
    \/ \E r \in Runs : FetchReject(r)
    \/ \E r \in Runs, ok \in BOOLEAN : LoadSet(r, ok)
    \/ \E r \in Runs : LoadGet(r)
    \/ \E r \in Runs, ok \in BOOLEAN : Recache(r, ok)
    \/ \E r \in Runs : CatchGet(r)
    \/ handleLogout
    \/ LogoutDone

Spec == Init /\ [][Next]_vars

\* ---------------------------------------------------------- CreateEvent
\* the hosted URL the upload endpoint answers with for an image
uploadImage(img) == <<"url", img>>

\* canSave: all text fields pass and an uploaded URL is present
canSave == fieldsOk /\ imageRemoteUrl # NoUrl

\* pickFromLibrary with a result that is not cancelled: asset img, with or
\* without base64 data
pickFromLibrary(img, hasBase64) ==
    /\ imageUri' = img
    /\ imageBase64' = IF hasBase64 THEN img ELSE 0
    /\ imageRemoteUrl' = NoUrl
    /\ UNCHANGED <<imageUploading, uploadArg, fieldsOk, saved, mapVars>>

\* takePhoto with a result that is not cancelled
takePhoto(img, hasBase64) ==
    /\ imageUri' = img
    /\ imageBase64' = IF hasBase64 THEN img ELSE 0
    /\ imageRemoteUrl' = NoUrl
    /\ UNCHANGED <<imageUploading, uploadArg, fieldsOk, saved, mapVars>>

\* uploadPickedImage up to its await: the button is enabled while no upload
\* runs; without base64 data it only alerts
uploadPickedImage ==
    /\ ~imageUploading
    /\ imageBase64 # 0
    /\ imageUploading' = TRUE
    /\ uploadArg' = imageBase64
    /\ UNCHANGED <<imageUri, imageBase64, imageRemoteUrl, fieldsOk, saved,
                   mapVars>>

\* the awaited uploadImage call settles: with a URL (ok) or by throwing
UploadSettle(ok) ==
    /\ uploadArg # 0
    /\ imageRemoteUrl' = IF ok THEN uploadImage(uploadArg) ELSE imageRemoteUrl
    /\ imageUploading' = FALSE
    /\ uploadArg' = 0
    /\ UNCHANGED <<imageUri, imageBase64, fieldsOk, saved, mapVars>>

\* the text fields are edited: they pass canSave's tests or not
EditFields(ok) ==
    /\ fieldsOk' = ok
    /\ fieldsOk' # fieldsOk
    /\ UNCHANGED <<imageUri, imageBase64, imageRemoteUrl, imageUploading,
                   uploadArg, saved, mapVars>>

\* handleSave with canSave: the event is sent with imageUrl: imageRemoteUrl
handleSave ==
    /\ canSave
    /\ saved' = saved \cup {<<imageUri, imageRemoteUrl>>}
    /\ UNCHANGED <<imageUri, imageBase64, imageRemoteUrl, imageUploading,
                   uploadArg, fieldsOk, mapVars>>

NextForm ==
    \/ \E img \in Images, b \in BOOLEAN : pickFromLibrary(img, b)
    \/ \E img \in Images, b \in BOOLEAN : takePhoto(img, b)
    \/ uploadPickedImage
    \/ \E ok \in BOOLEAN : UploadSettle(ok)
    \/ \E ok \in BOOLEAN : EditFields(ok)
    \/ handleSave

SpecForm == Init /\ [][NextForm]_vars

\* =============================================================== claims
K == EventsKey
Done(r) == pc[r] = "done"
\* the store operations run r has performed so far, of one kind
OpsOf(r, kind) == {i \in 1..Len(hist[r].ops) : hist[r].ops[i][1] = kind}
SetFailed(r) == \E i \in OpsOf(r, "set") : ~hist[r].ops[i][2]
SetSucceeded(r) == \E i \in OpsOf(r, "set") : hist[r].ops[i][2]
\* the store accepted the write that follows the loader's return
RecacheAccepted(r) ==
    Len(hist[r].ops) = 2 /\ hist[r].ops[2][1] = "set" /\ hist[r].ops[2][2]
FetchOk(r) == hist[r].fetchRes = "ok"
FetchFailed(r) == hist[r].fetchRes = "fail"
\* the loader of run r has fallen back to the store
FellBack(r) == FetchFailed(r) /\ hist[r].loadOutcome # "none"

C2_SetFailureTolerated ==
    \A r \in Runs : (Done(r) /\ FetchOk(r) /\ SetFailed(r)) =>
        /\ hist[r].shown = hist[r].fetched
        /\ hist[r].shownFrom = "response"
        /\ ~hist[r].alertOffline

\* C3: a call whose fetch failed while the key held a value returns that
\* value without failing and with the stale signal; a call whose loader
\* returned fresh network data gets neither stale signal nor offline alert.
C3_StaleFallback ==
    /\ \A r \in Runs : (FellBack(r) /\ hist[r].cacheAtFallback # Null) =>
          /\ hist[r].loadOutcome = "stale"
          /\ response[r] = Parse(hist[r].cacheAtFallback)
          /\ hist[r].staleSignal
    /\ \A r \in Runs : hist[r].loadOutcome = "fresh" =>
          /\ ~hist[r].staleSignal
          /\ ~hist[r].alertOffline

\* C4: a call whose fetch failed while the key held nothing fails with
\* Unavailable, returns no value, writes nothing, and the user is not told
\* that events were loaded from cache.
C4_CacheMiss ==
    \A r \in Runs : (FellBack(r) /\ hist[r].cacheAtFallback = Null) =>
        /\ hist[r].unavailable
        /\ response[r] = Undefined
        /\ OpsOf(r, "set") = {}
        /\ ~hist[r].alertOffline

\* C5: the events entry is absent or a fetched payload; it changes only in
\* a step of a call whose fetch succeeded; once present it stays present;
\* logout removes userInfo and accessToken and leaves the entry.
C5_Lifecycle ==
    /\ [](store[K] = Null \/ Parse(store[K]) \in fetchedEver)
    /\ [][store'[K] # store[K] =>
            \E r \in Runs : pc'[r] # pc[r] /\ FetchOk(r)]_vars
    /\ [][store[K] # Null => store'[K] # Null]_vars
    /\ [][logout' # logout =>
            /\ store'[K] = store[K]
            /\ (logout' = "done" =>
                  store'["userInfo"] = Null /\ store'["accessToken"] = Null)]_vars

\* C6: every started call has started the request exactly once, also after
\* its fetch failed and it went to the fallback.
C6_NoRetry ==
    \A r \in Runs :
        /\ hist[r].fetchCount = IF pc[r] = "idle" THEN 0 ELSE 1
        /\ FetchFailed(r) =>
              /\ pc[r] # "fetching"
              /\ (pc[r] = "loadGet" \/ hist[r].ops[1] = Op("get", TRUE))

\* C6 witness: a call whose fetch failed has finished.
C6_Witness == \E r \in Runs : Done(r) /\ FetchFailed(r) /\ hist[r].fetchCount = 1

\* C7: a call touches the store only after the request has settled, and by
\* at most one operation: a write after a success, a read after a failure.
C7_OneStoreOperation ==
    \A r \in Runs :
        /\ Len(hist[r].ops) <= 1
        /\ hist[r].ops # <<>> => hist[r].fetchRes # "none"
        /\ FetchOk(r) => OpsOf(r, "get") = {}
        /\ FetchFailed(r) => OpsOf(r, "set") = {}

\* C8: overlapping calls each start their own request and each successful
\* one writes the store; the entry is always exactly the payload of the
\* last accepted write, which one of the calls (or an earlier session)
\* made; the other keys are touched by logout only, which never touches
\* the entry.
C8_LastWriteWins ==
    /\ store[K] = IF persisted = Undefined THEN Null ELSE Stringify(persisted)
    /\ \A r \in Runs : pc[r] # "idle" => hist[r].fetchCount = 1
    /\ \A r \in Runs : (FetchOk(r) /\ hist[r].loadOutcome # "none") =>
          OpsOf(r, "set") # {}
    /\ (\E r \in Runs : SetSucceeded(r)) =>
          \E r \in Runs : SetSucceeded(r) /\ response[r] = persisted
    /\ \A k \in Keys \ {K} :
          store[k] = IF logout = "done" THEN Null ELSE <<"raw", k>>

\* C8 witness: two overlapping calls fetched different payloads, both
\* wrote, both finished, and the user has logged out.
C8_Witness ==
    /\ Done(1) /\ Done(2) /\ hist[1].overlapped /\ hist[2].overlapped
    /\ FetchOk(1) /\ FetchOk(2) /\ hist[1].fetched # hist[2].fetched
    /\ SetSucceeded(1) /\ SetSucceeded(2)
    /\ store[K] = Stringify(hist[1].fetched)
    /\ logout = "done"

\* C9: with no call in flight and events set by some call, the events shown
\* are the persisted entry; while a call is in flight isLoading is true.
C9_EventsAgreeWithCache ==
    /\ (InFlight = {} /\ \E r \in Runs : hist[r].shown # Undefined) =>
          events = Parse(store[K])
    /\ InFlight # {} => isLoading

\* C10: an uploaded URL, when present, is the URL of the image now held,
\* and every saved event carries the URL of the image it was saved with.
C10_UrlOfCurrentImage ==
    /\ imageRemoteUrl # NoUrl =>
          imageBase64 # 0 /\ imageRemoteUrl = uploadImage(imageBase64)
    /\ \A e \in saved : e[2] = uploadImage(e[1])

====
